---- MODULE Spec2Model ----
(***************************************************************************)
(* A model of the new_type_pair! macro (src/src/new_type_pair.rs) and of   *)
(* the three contracts the repository instantiates it with:                *)
(*   StrWrap / StrWrapRef       (String, non-empty)                        *)
(*   ArrStrWrap / ArrStrWrapRef (ArrayString<[u8;16]>, non-empty, <= 16)   *)
(*   ShortId / ShortIdRef       (ArrayString<[u8;8]>, non-empty, <= 8)     *)
(* Strings are sequences of UTF-8 bytes; a View is a (region, offset,      *)
(* length) reference into a buffer somebody else owns.                     *)
(***************************************************************************)
EXTENDS Integers, Sequences, FiniteSets, TLC

VARIABLES contract,   \* the contract (the $otype/$rtype pair) in use
          raws,       \* the caller's live raw buffers (String / ArrayString / str)
          owned,      \* the live Owned values ($otype { inner })
          views,      \* the live Views (&$rtype): references into a buffer
          result,     \* the outcome of the latest operation
          calls,      \* arguments of the validate calls the latest operation made
          operands,   \* comparison operands <<a, b, c>>
          cmp         \* outcome of the latest comparison

vars == <<contract, raws, owned, views, result, calls, operands, cmp>>

(***************************************************************************)
(* Bounds                                                                  *)
(***************************************************************************)
MaxRaw == 1      \* live caller buffers
MaxOwned == 1    \* live Owned values
MaxViews == 1    \* live Views

(***************************************************************************)
(* Contracts                                                               *)
(***************************************************************************)
Contracts == {"StrWrap", "ArrStrWrap", "ShortId"}

ArrStrWrapCap == 16
ShortIdCap == 8
ArrStrWrapMax == 16
ShortIdMax == 8

\* -1: the raw representation is a String, which has no capacity limit
Capacity(k) ==
  CASE k = "ArrStrWrap" -> ArrStrWrapCap
    [] k = "ShortId" -> ShortIdCap
    [] OTHER -> -1

(***************************************************************************)
(* Strings: UTF-8 byte sequences                                           *)
(***************************************************************************)
LatinT == 84          \* 'T' of TEST_STRING
CapitalCCirc == 264   \* U+0108 of ALT_STRING, two bytes in UTF-8

Utf8(cp) == IF cp < 128 THEN <<cp>> ELSE <<192 + (cp \div 64), 128 + (cp % 64)>>

RECURSIVE Utf8Str(_)
Utf8Str(cps) == IF cps = <<>> THEN <<>> ELSE Utf8(Head(cps)) \o Utf8Str(Tail(cps))

Repeat(b, n) == [i \in 1..n |-> b]

\* "", "T" and "\u0108"
ShortInputs == {Utf8Str(cps) : cps \in {<<>>, <<LatinT>>, <<CapitalCCirc>>}}

\* the first n lower-case letters: "abcdefgh" for n = 8
Letters(n) == [i \in 1..n |-> 96 + i]

\* inputs at the contract's length limit: exactly at it, one byte over, and
\* as many characters as the limit but one byte over
LongInputs(k) ==
  IF Capacity(k) < 0
  THEN {Repeat(LatinT, ShortIdCap + 1)}
  ELSE IF k = "ShortId"
  THEN {Letters(ShortIdCap),
        Letters(ShortIdCap + 1),
        Repeat(LatinT, ShortIdCap - 1) \o Utf8(CapitalCCirc)}
  ELSE {Repeat(LatinT, Capacity(k)),
        Repeat(LatinT, Capacity(k) + 1),
        Repeat(LatinT, Capacity(k) - 1) \o Utf8(CapitalCCirc)}

Inputs(k) == ShortInputs \cup LongInputs(k)

\* core::str::from_utf8 on one- and two-byte sequences
RECURSIVE IsUtf8(_)
IsUtf8(bs) ==
  IF bs = <<>> THEN TRUE
  ELSE IF bs[1] < 128 THEN IsUtf8(Tail(bs))
  ELSE IF bs[1] >= 194 /\ bs[1] < 224 /\ Len(bs) >= 2 /\ bs[2] >= 128 /\ bs[2] < 192
       THEN IsUtf8(Tail(Tail(bs)))
  ELSE FALSE

(***************************************************************************)
(* The validation contracts                                                *)
(***************************************************************************)
Ok == "Ok"

\* <StrWrapRef as NewTypeRef>::validate
validate_StrWrap(value) ==
  IF Len(value) = 0 THEN "EmptyStringError" ELSE Ok

\* a validate whose length bound is one above the inline capacity
validate_ArrStrWrap_loose(value) ==
  IF Len(value) = 0 THEN "Empty!"
  ELSE IF Len(value) > ArrStrWrapCap + 1 THEN "Too Long!"
  ELSE Ok

\* <ArrStrWrapRef as NewTypeRef>::validate
validate_ArrStrWrap(value) ==
  IF Len(value) = 0 THEN "Empty!"
  ELSE IF Len(value) > ArrStrWrapMax THEN "Too Long!"
  ELSE Ok

\* a validate that rejects a string of exactly the maximum length
validate_ShortId_strict(value) ==
  IF Len(value) = 0 THEN "Empty string"
  ELSE IF Len(value) >= ShortIdMax THEN "Too long"
  ELSE Ok

\* a validate whose length bound is one above the inline capacity
validate_ShortId_loose(value) ==
  IF Len(value) = 0 THEN "Empty string"
  ELSE IF Len(value) > ShortIdCap + 1 THEN "Too long"
  ELSE Ok

\* <ShortIdRef as NewTypeRef>::validate
validate_ShortId(value) ==
  IF Len(value) = 0 THEN "Empty string"
  ELSE IF Len(value) > ShortIdMax THEN "Too long"
  ELSE Ok

validate(k, value) ==
  CASE k = "StrWrap" -> validate_StrWrap(value)
    [] k = "ArrStrWrap" -> validate_ArrStrWrap(value)
    [] k = "ShortId" -> validate_ShortId(value)

\* e.to_string(): Display of the contract's ValidationError
to_string(e) ==
  IF e = "EmptyStringError" THEN "string must not be empty" ELSE e

\* ArrayString::from(&str): fails when the string exceeds the capacity
ArrayStringFrom(cap, s) ==
  IF Len(s) > cap THEN [ok |-> FALSE, bytes |-> <<>>] ELSE [ok |-> TRUE, bytes |-> s]

\* the values of the raw representation $itype
IsRawValue(k, s) == Capacity(k) < 0 \/ ArrayStringFrom(Capacity(k), s).ok

(***************************************************************************)
(* Owned values, Views and the constructors                                *)
(***************************************************************************)
\* a View is a reference: the buffer it points into, and the region of it
NoView == [src |-> "none", buf |-> <<>>, off |-> 0, len |-> 0]

\* a reference to the whole of a caller's buffer / of an Owned value's inner
RawRegion(s) == [src |-> "raw", buf |-> s, off |-> 0, len |-> Len(s)]
InnerRegion(o) == [src |-> "owned", buf |-> o.inner, off |-> 0, len |-> Len(o.inner)]

\* AsRef<$stype> for $rtype: &self.inner, the bytes the reference covers
ViewBytes(v) == SubSeq(v.buf, v.off + 1, v.off + v.len)

\* from_unchecked answering with a reference to a fresh copy of the region
from_unchecked_copy(s) ==
  [src |-> "copy", buf |-> ViewBytes(s), off |-> 0, len |-> s.len]

\* $rtype::from_unchecked: a pointer cast, the same region under another type
from_unchecked(s) == s

\* try_from without the validate call
try_from_unvalidated(k, value) ==
  [ok |-> TRUE, err |-> "", inner |-> value, calls |-> <<>>]

\* try_from storing a lower-cased copy of the value
try_from_normalizing(k, value) ==
  LET inner == [i \in 1..Len(value) |->
                  IF value[i] >= 65 /\ value[i] <= 90 THEN value[i] + 32 ELSE value[i]]
      v == validate(k, inner)
  IN IF v # Ok
     THEN [ok |-> FALSE, err |-> v, inner |-> <<>>, calls |-> <<inner>>]
     ELSE [ok |-> TRUE, err |-> "", inner |-> inner, calls |-> <<inner>>]

\* $otype::try_from
try_from(k, value) ==
  LET inner == value
      v == validate(k, inner)
  IN IF v # Ok
     THEN [ok |-> FALSE, err |-> v, inner |-> <<>>, calls |-> <<inner>>]
     ELSE [ok |-> TRUE, err |-> "", inner |-> inner, calls |-> <<inner>>]

\* try_as_ref without the validate call
try_as_ref_unvalidated(k, value) ==
  [ok |-> TRUE, err |-> "", view |-> from_unchecked(value), calls |-> <<>>]

\* try_as_ref validating once more after a failure
try_as_ref_retrying(k, value) ==
  LET inner_ref == value
      v == validate(k, ViewBytes(inner_ref))
  IN IF v # Ok
     THEN [ok |-> FALSE, err |-> validate(k, ViewBytes(inner_ref)), view |-> NoView,
           calls |-> <<ViewBytes(inner_ref), ViewBytes(inner_ref)>>]
     ELSE [ok |-> TRUE, err |-> "", view |-> from_unchecked(inner_ref),
           calls |-> <<ViewBytes(inner_ref)>>]

\* $rtype::try_as_ref
try_as_ref(k, value) ==
  LET inner_ref == value
      v == validate(k, ViewBytes(inner_ref))
  IN IF v # Ok
     THEN [ok |-> FALSE, err |-> v, view |-> NoView, calls |-> <<ViewBytes(inner_ref)>>]
     ELSE [ok |-> TRUE, err |-> "", view |-> from_unchecked(inner_ref),
           calls |-> <<ViewBytes(inner_ref)>>]

\* AsRef<$rtype> for $otype
as_ref(o) == from_unchecked(InnerRegion(o))

\* Deref for $otype
deref(o) == as_ref(o)

\* Borrow<$rtype> for $otype
borrow(o) == as_ref(o)

\* a borrow that goes through the checked constructor
BorrowAs_checked(k, o, how) ==
  LET t == try_as_ref(k, InnerRegion(o))
  IN [view |-> t.view, calls |-> t.calls]

\* the three borrows of a View from an Owned value, and the validate calls
\* their bodies make: each body is the pointer cast alone
BorrowAs(k, o, how) ==
  [view |-> CASE how = "as_ref" -> as_ref(o)
              [] how = "borrow" -> borrow(o)
              [] how = "deref" -> deref(o),
   calls |-> <<>>]

\* to_owned copying one byte less than the View holds
to_owned_short(k, r) ==
  [panic |-> FALSE, inner |-> SubSeq(ViewBytes(r), 1, r.len - 1)]

\* NewTypeRef::to_owned of the three contracts: String::from for StrWrapRef,
\* ArrayString::from(..).unwrap() / .expect(..) for the inline-buffered ones
to_owned(k, r) ==
  IF Capacity(k) < 0
  THEN [panic |-> FALSE, inner |-> ViewBytes(r)]
  ELSE LET a == ArrayStringFrom(Capacity(k), ViewBytes(r))
       IN [panic |-> ~a.ok, inner |-> a.bytes]

\* From<&$rtype> for $otype
from_ref(k, r) == to_owned(k, r)

\* From<$otype> for $itype
into_inner(o) == o.inner

(***************************************************************************)
(* The comparison lattice.  An operand is a form and a value: "O" an Owned *)
(* value, "R" a View, "&R" a reference to a View, "S" a raw str, "&S" a    *)
(* reference to a raw str.                                                 *)
(***************************************************************************)
Forms == {"O", "R", "&R", "S", "&S"}

Operand(form, val) == [form |-> form, val |-> val]

\* str == str: the lengths and the bytes agree
StrEq(a, b) == Len(a) = Len(b) /\ \A i \in 1..Len(a) : a[i] = b[i]

\* str::partial_cmp: the order of the first differing byte, else of the lengths
RECURSIVE StrCmp(_, _)
StrCmp(a, b) ==
  IF a = <<>> /\ b = <<>> THEN "Equal"
  ELSE IF a = <<>> THEN "Less"
  ELSE IF b = <<>> THEN "Greater"
  ELSE IF Head(a) < Head(b) THEN "Less"
  ELSE IF Head(a) > Head(b) THEN "Greater"
  ELSE StrCmp(Tail(a), Tail(b))

\* the pairs of forms == and partial_cmp are implemented for: the macro's
\* fourteen impls, the derives on $otype and $rtype, str itself, and core's
\* impl for a reference on both sides
MacroImpls ==
  {<<"&R", "O">>, <<"R", "O">>, <<"&S", "O">>, <<"S", "O">>,
   <<"O", "&S">>, <<"O", "S">>, <<"O", "&R">>, <<"O", "R">>,
   <<"S", "R">>, <<"S", "&R">>, <<"&S", "R">>,
   <<"R", "S">>, <<"R", "&S">>, <<"&R", "S">>}

DerivedImpls == {<<"O", "O">>, <<"R", "R">>, <<"S", "S">>}

Pointee(f) == IF f = "&R" THEN "R" ELSE IF f = "&S" THEN "S" ELSE "none"

HasImpl(lf, rf) ==
  \/ <<lf, rf>> \in MacroImpls \cup DerivedImpls
  \/ <<Pointee(lf), Pointee(rf)>> \in MacroImpls \cup DerivedImpls

\* the str an operand's value holds: inner of $otype, inner of $rtype, or itself
Inner(x) ==
  CASE x.form = "O" -> x.val.inner
    [] x.form \in {"R", "&R"} -> ViewBytes(x.val)
    [] OTHER -> x.val

\* rhs.as_ref() / self.as_ref() on an Owned operand: a reference to a View
AsRefOperand(x) == Operand("&R", as_ref(x.val))

\* *x on a reference operand
DerefOperand(x) == Operand(Pointee(x.form), x.val)

\* eq comparing only as many bytes as the shorter operand has
eq_prefix(l, r) ==
  \A i \in 1..Len(Inner(l)) : i <= Len(Inner(r)) => Inner(l)[i] = Inner(r)[i]

\* PartialEq::eq, each pair of forms by the body of its impl
RECURSIVE eq(_, _)
eq(l, r) ==
  LET p == <<l.form, r.form>>
  IN CASE p \in {<<"&R", "O">>, <<"R", "O">>} -> eq(Operand("&R", l.val), AsRefOperand(r))
       [] p = <<"&S", "O">> -> eq(l, DerefOperand(AsRefOperand(r)))
       [] p = <<"S", "O">> -> eq(l, DerefOperand(AsRefOperand(r)))
       [] p = <<"O", "&S">> -> eq(DerefOperand(AsRefOperand(l)), DerefOperand(r))
       [] p = <<"O", "S">> -> eq(AsRefOperand(l), r)
       [] p = <<"O", "&R">> -> eq(AsRefOperand(l), r)
       [] p = <<"O", "R">> -> eq(AsRefOperand(l), Operand("&R", r.val))
       [] p \in {<<"S", "R">>, <<"S", "&R">>, <<"&S", "R">>} -> StrEq(Inner(l), Inner(r))
       [] p \in {<<"R", "S">>, <<"R", "&S">>, <<"&R", "S">>} -> StrEq(Inner(l), Inner(r))
       [] p \in {<<"O", "O">>, <<"R", "R">>, <<"S", "S">>} -> StrEq(Inner(l), Inner(r))
       [] OTHER -> eq(DerefOperand(l), DerefOperand(r))

\* partial_cmp with the operands of the str comparison exchanged
partial_cmp_exchanged(l, r) == StrCmp(Inner(r), Inner(l))

\* PartialOrd::partial_cmp, each pair of forms by the body of its impl
RECURSIVE partial_cmp(_, _)
partial_cmp(l, r) ==
  LET p == <<l.form, r.form>>
  IN CASE p \in {<<"&R", "O">>, <<"R", "O">>} ->
            partial_cmp(Operand("&R", l.val), AsRefOperand(r))
       [] p \in {<<"&S", "O">>, <<"S", "O">>} ->
            partial_cmp(Operand("&S", l.val), AsRefOperand(r))
       [] p \in {<<"O", "&R">>, <<"O", "R">>} ->
            partial_cmp(AsRefOperand(l), Operand("&R", r.val))
       [] p \in {<<"O", "&S">>, <<"O", "S">>} ->
            partial_cmp(AsRefOperand(l), Operand("&S", r.val))
       [] p \in {<<"S", "R">>, <<"S", "&R">>, <<"&S", "R">>} -> StrCmp(Inner(l), Inner(r))
       [] p \in {<<"R", "S">>, <<"R", "&S">>, <<"&R", "S">>} -> StrCmp(Inner(l), Inner(r))
       [] p \in {<<"O", "O">>, <<"R", "R">>, <<"S", "S">>} -> StrCmp(Inner(l), Inner(r))
       [] OTHER -> partial_cmp(DerefOperand(l), DerefOperand(r))

(***************************************************************************)
(* The serialization adapter, over bincode's encoding of a string: the     *)
(* length as a little-endian u64, then the UTF-8 bytes                     *)
(***************************************************************************)
LenPrefix == 8

RECURSIVE ToLE(_, _)
ToLE(n, w) == IF w = 0 THEN <<>> ELSE <<n % 256>> \o ToLE(n \div 256, w - 1)

\* the little-endian value of bs, or limit + 1 when it is beyond limit
RECURSIVE FromLE(_, _)
FromLE(bs, limit) ==
  IF bs = <<>> THEN 0
  ELSE LET high == FromLE(Tail(bs), limit)
       IN IF bs[1] + 256 * high > limit THEN limit + 1 ELSE bs[1] + 256 * high

\* Serializer::serialize_str
serialize_str(s) == ToLE(Len(s), LenPrefix) \o s

\* Serialize for $otype framing the string as variant 0 of an enum
serialize_owned_framed(o) == ToLE(0, 4) \o serialize_str(ViewBytes(as_ref(o)))

\* Serialize for $otype
serialize_owned(o) == serialize_str(ViewBytes(as_ref(o)))

\* Serialize for $rtype writing the length of the buffer the View points into
serialize_view_whole(r) == ToLE(Len(r.buf), LenPrefix) \o ViewBytes(r)

\* Serialize for $rtype
serialize_view(r) == serialize_str(ViewBytes(r))

\* Deserializer::deserialize_str on a slice: a reference into the input
deserialize_str(buf) ==
  IF Len(buf) < LenPrefix
  THEN [ok |-> FALSE, shape |-> "Io", err |-> "unexpected end of file", ref |-> NoView]
  ELSE LET n == FromLE(SubSeq(buf, 1, LenPrefix), Len(buf) - LenPrefix)
       IN IF Len(buf) - LenPrefix < n
          THEN [ok |-> FALSE, shape |-> "Io", err |-> "unexpected end of file",
                ref |-> NoView]
          ELSE IF ~IsUtf8(SubSeq(buf, LenPrefix + 1, LenPrefix + n))
          THEN [ok |-> FALSE, shape |-> "InvalidUtf8Encoding",
                err |-> "string is not valid utf8", ref |-> NoView]
          ELSE [ok |-> TRUE, shape |-> "None", err |-> "",
                ref |-> [src |-> "wire", buf |-> buf, off |-> LenPrefix, len |-> n]]

\* Deserialize for $itype: String copies the decoded str; ArrayString
\* reports a str beyond its capacity as serde's invalid_length, which
\* bincode builds with Error::custom
deserialize_itype(k, buf) ==
  LET d == deserialize_str(buf)
  IN IF ~d.ok THEN [ok |-> FALSE, shape |-> d.shape, err |-> d.err, bytes |-> <<>>]
     ELSE IF Capacity(k) < 0
     THEN [ok |-> TRUE, shape |-> "None", err |-> "", bytes |-> ViewBytes(d.ref)]
     ELSE LET a == ArrayStringFrom(Capacity(k), ViewBytes(d.ref))
          IN IF a.ok
             THEN [ok |-> TRUE, shape |-> "None", err |-> "", bytes |-> a.bytes]
             ELSE [ok |-> FALSE, shape |-> "Custom", err |-> "invalid length",
                   bytes |-> <<>>]

\* Deserialize for $otype reporting the error's Debug form, not e.to_string()
deserialize_owned_debug(k, buf) ==
  LET inner == deserialize_itype(k, buf)
  IN IF ~inner.ok
     THEN [ok |-> FALSE, shape |-> inner.shape, err |-> inner.err, inner |-> <<>>,
           calls |-> <<>>]
     ELSE LET t == try_from(k, inner.bytes)
          IN IF ~t.ok
             THEN [ok |-> FALSE, shape |-> "Custom", err |-> t.err,
                   inner |-> <<>>, calls |-> t.calls]
             ELSE [ok |-> TRUE, shape |-> "None", err |-> "", inner |-> t.inner,
                   calls |-> t.calls]

\* Deserialize for $otype
deserialize_owned(k, buf) ==
  LET inner == deserialize_itype(k, buf)
  IN IF ~inner.ok
     THEN [ok |-> FALSE, shape |-> inner.shape, err |-> inner.err, inner |-> <<>>,
           calls |-> <<>>]
     ELSE LET t == try_from(k, inner.bytes)
          IN IF ~t.ok
             THEN [ok |-> FALSE, shape |-> "Custom", err |-> to_string(t.err),
                   inner |-> <<>>, calls |-> t.calls]
             ELSE [ok |-> TRUE, shape |-> "None", err |-> "", inner |-> t.inner,
                   calls |-> t.calls]

\* Deserialize for &$rtype casting the decoded str without validating it
deserialize_view_unchecked(k, buf) ==
  LET inner == deserialize_str(buf)
  IN IF ~inner.ok
     THEN [ok |-> FALSE, shape |-> inner.shape, err |-> inner.err, view |-> NoView,
           calls |-> <<>>]
     ELSE [ok |-> TRUE, shape |-> "None", err |-> "", view |-> from_unchecked(inner.ref),
           calls |-> <<>>]

\* Deserialize for &$rtype
deserialize_view(k, buf) ==
  LET inner == deserialize_str(buf)
  IN IF ~inner.ok
     THEN [ok |-> FALSE, shape |-> inner.shape, err |-> inner.err, view |-> NoView,
           calls |-> <<>>]
     ELSE LET t == try_as_ref(k, inner.ref)
          IN IF ~t.ok
             THEN [ok |-> FALSE, shape |-> "Custom", err |-> to_string(t.err),
                   view |-> NoView, calls |-> t.calls]
             ELSE [ok |-> TRUE, shape |-> "None", err |-> "", view |-> t.view,
                   calls |-> t.calls]

\* the buffers handed to the decoder for a string x: its encoding, the same
\* cut short by a byte, and the same ending in the middle of a character
WireInputs(x) ==
  {serialize_str(x), SubSeq(serialize_str(x), 1, Len(serialize_str(x)) - 1)}
    \cup (IF Len(x) > 0 /\ x[Len(x)] >= 128
          THEN {serialize_str(SubSeq(x, 1, Len(x) - 1))}
          ELSE {})

(***************************************************************************)
(* The state machine: a caller applying the public operations              *)
(***************************************************************************)
Outcome(op, ok, shape, err, input, out, view) ==
  [op |-> op, ok |-> ok, shape |-> shape, err |-> err, input |-> input,
   out |-> out, view |-> view]

NoResult == Outcome("none", TRUE, "None", "", <<>>, <<>>, NoView)
NoOperands == <<>>
NoCmp == [done |-> FALSE]

\* a borrow is live: the borrow checker rejects moving or dropping its source
Borrowed(src, bs) == \E v \in views : v.src = src /\ v.buf = bs

Fits(set, elem, max) == elem \in set \/ Cardinality(set) < max

Init ==
  /\ contract \in Contracts
  /\ raws = {}
  /\ owned = {}
  /\ views = {}
  /\ result = NoResult
  /\ calls = <<>>
  /\ operands = NoOperands
  /\ cmp = NoCmp

\* the caller comes to hold a raw buffer
AllocRaw(x) ==
  /\ Cardinality(raws) < MaxRaw
  /\ x \notin raws
  /\ raws' = raws \cup {x}
  /\ result' = Outcome("alloc", TRUE, "None", "", x, <<>>, NoView)
  /\ calls' = <<>>
  /\ UNCHANGED <<contract, owned, views, operands, cmp>>

\* the caller's string turned into the raw representation $itype:
\* s.to_owned() for a String, ArrayString::from(s) for an inline buffer
into_raw(k, x) ==
  IF Capacity(k) < 0 THEN [ok |-> TRUE, bytes |-> x] ELSE ArrayStringFrom(Capacity(k), x)

\* $otype::try_from on the caller's string x: try_from takes a value of the
\* raw representation, and is not reached when x does not convert to one
TryFrom(x) ==
  /\ LET a == into_raw(contract, x)
         t == try_from(contract, a.bytes)
     IN IF ~a.ok
        THEN /\ owned' = owned
             /\ result' = Outcome("into_raw", FALSE, "Capacity", "CapacityError",
                                  x, <<>>, NoView)
             /\ calls' = <<>>
        ELSE /\ t.ok => Fits(owned, [inner |-> t.inner], MaxOwned)
             /\ owned' = IF t.ok THEN owned \cup {[inner |-> t.inner]} ELSE owned
             /\ result' = Outcome("try_from", t.ok, IF t.ok THEN "None" ELSE "Validation",
                                  t.err, x, t.inner, NoView)
             /\ calls' = t.calls
  /\ UNCHANGED <<contract, raws, views, operands, cmp>>

\* $rtype::try_as_ref(&s), s a buffer of the caller or the str of a View
TryAsRef(s) ==
  /\ LET t == try_as_ref(contract, s)
     IN /\ t.ok => Fits(views, t.view, MaxViews)
        /\ views' = IF t.ok THEN views \cup {t.view} ELSE views
        /\ result' = Outcome("try_as_ref", t.ok, IF t.ok THEN "None" ELSE "Validation",
                             t.err, ViewBytes(s), <<>>, t.view)
        /\ calls' = t.calls
  /\ UNCHANGED <<contract, raws, owned, operands, cmp>>

\* o.as_ref(), o.borrow(), &*o
Borrow(o, how) ==
  /\ LET b == BorrowAs(contract, o, how)
         v == b.view
     IN /\ Fits(views, v, MaxViews)
        /\ views' = views \cup {v}
        /\ result' = Outcome(how, TRUE, "None", "", o.inner, <<>>, v)
        /\ calls' = b.calls
  /\ UNCHANGED <<contract, raws, owned, operands, cmp>>

\* r.to_owned(), $otype::from(r)
ToOwned(r, how) ==
  /\ LET t == IF how = "from" THEN from_ref(contract, r) ELSE to_owned(contract, r)
     IN /\ ~t.panic => Fits(owned, [inner |-> t.inner], MaxOwned)
        /\ owned' = IF t.panic THEN owned ELSE owned \cup {[inner |-> t.inner]}
        /\ result' = Outcome(how, ~t.panic, IF t.panic THEN "Panic" ELSE "None",
                             "", ViewBytes(r), t.inner, r)
  /\ calls' = <<>>
  /\ UNCHANGED <<contract, raws, views, operands, cmp>>

\* $itype::from(o): consumes the Owned value
Into(o) ==
  /\ ~Borrowed("owned", o.inner)
  /\ LET inner == into_inner(o)
     IN /\ owned' = owned \ {o}
        /\ raws' = IF Fits(raws, inner, MaxRaw) THEN raws \cup {inner} ELSE raws
        /\ result' = Outcome("into", TRUE, "None", "", o.inner, inner, NoView)
  /\ calls' = <<>>
  /\ UNCHANGED <<contract, views, operands, cmp>>

SerializeOwned(o) ==
  /\ result' = Outcome("serialize_owned", TRUE, "None", "", o.inner,
                       serialize_owned(o), NoView)
  /\ calls' = <<>>
  /\ UNCHANGED <<contract, raws, owned, views, operands, cmp>>

SerializeView(r) ==
  /\ result' = Outcome("serialize_view", TRUE, "None", "", ViewBytes(r),
                       serialize_view(r), r)
  /\ calls' = <<>>
  /\ UNCHANGED <<contract, raws, owned, views, operands, cmp>>

DeserializeOwned(buf) ==
  /\ LET d == deserialize_owned(contract, buf)
     IN /\ d.ok => Fits(owned, [inner |-> d.inner], MaxOwned)
        /\ owned' = IF d.ok THEN owned \cup {[inner |-> d.inner]} ELSE owned
        /\ result' = Outcome("deserialize_owned", d.ok, d.shape, d.err, buf, d.inner,
                             NoView)
        /\ calls' = d.calls
  /\ UNCHANGED <<contract, raws, views, operands, cmp>>

DeserializeView(buf) ==
  /\ LET d == deserialize_view(contract, buf)
     IN /\ d.ok => Fits(views, d.view, MaxViews)
        /\ views' = IF d.ok THEN views \cup {d.view} ELSE views
        /\ result' = Outcome("deserialize_view", d.ok, d.shape, d.err, buf, <<>>,
                             d.view)
        /\ calls' = d.calls
  /\ UNCHANGED <<contract, raws, owned, operands, cmp>>

\* values and references going out of scope
DropRaw(s) ==
  /\ ~Borrowed("raw", s)
  /\ raws' = raws \ {s}
  /\ result' = Outcome("drop", TRUE, "None", "", <<>>, <<>>, NoView)
  /\ calls' = <<>>
  /\ UNCHANGED <<contract, owned, views, operands, cmp>>

DropOwned(o) ==
  /\ ~Borrowed("owned", o.inner)
  /\ owned' = owned \ {o}
  /\ result' = Outcome("drop", TRUE, "None", "", <<>>, <<>>, NoView)
  /\ calls' = <<>>
  /\ UNCHANGED <<contract, raws, views, operands, cmp>>

DropView(r) ==
  /\ views' = views \ {r}
  /\ result' = Outcome("drop", TRUE, "None", "", <<>>, <<>>, NoView)
  /\ calls' = <<>>
  /\ UNCHANGED <<contract, raws, owned, operands, cmp>>

Next ==
  \/ \E x \in Inputs(contract) : AllocRaw(x)
  \/ \E x \in raws : TryFrom(x)
  \/ \E s \in {RawRegion(x) : x \in raws} \cup views : TryAsRef(s)
  \/ \E o \in owned, how \in {"as_ref", "borrow", "deref"} : Borrow(o, how)
  \/ \E r \in views, how \in {"to_owned", "from"} : ToOwned(r, how)
  \/ \E o \in owned : Into(o)
  \/ \E o \in owned : SerializeOwned(o)
  \/ \E r \in views : SerializeView(r)
  \/ \E x \in raws : \E buf \in WireInputs(x) : DeserializeOwned(buf)
  \/ \E x \in raws : \E buf \in WireInputs(x) : DeserializeView(buf)
  \/ \E s \in raws : DropRaw(s)
  \/ \E o \in owned : DropOwned(o)
  \/ \E r \in views : DropView(r)

Spec == Init /\ [][Next]_vars

TypeOK ==
  /\ contract \in Contracts
  /\ Cardinality(raws) <= MaxRaw
  /\ Cardinality(owned) <= MaxOwned
  /\ Cardinality(views) <= MaxViews

(***************************************************************************)
(* Comparisons: three operands built by the constructors, then compared    *)
(* pairwise with == and partial_cmp                                        *)
(***************************************************************************)
OwnedOperands(k) ==
  {Operand("O", [inner |-> try_from(k, x).inner]) :
     x \in {y \in Inputs(k) : IsRawValue(k, y) /\ try_from(k, y).ok}}

ViewOperands(k) ==
  {Operand(f, try_as_ref(k, RawRegion(x)).view) :
     f \in {"R", "&R"}, x \in {y \in Inputs(k) : try_as_ref(k, RawRegion(y)).ok}}

RawOperands(k) == {Operand(f, x) : f \in {"S", "&S"}, x \in Inputs(k)}

OperandSet(k) == OwnedOperands(k) \cup ViewOperands(k) \cup RawOperands(k)

Positions == {<<i, j>> : i \in 1..3, j \in 1..3}

\* l == r and l.partial_cmp(r) where the pair of forms has an impl; the
\* expression does not compile otherwise
Equals(l, r) ==
  IF ~HasImpl(l.form, r.form) THEN "NoImpl"
  ELSE IF eq(l, r) THEN "true" ELSE "false"

Compares(l, r) ==
  IF ~HasImpl(l.form, r.form) THEN "NoImpl" ELSE partial_cmp(l, r)

InitCmp ==
  /\ contract \in Contracts
  /\ raws = {}
  /\ owned = {}
  /\ views = {}
  /\ result = NoResult
  /\ calls = <<>>
  /\ operands \in OperandSet(contract) \X OperandSet(contract) \X OperandSet(contract)
  /\ cmp = NoCmp

Compare ==
  /\ ~cmp.done
  /\ cmp' = [done |-> TRUE,
             eq |-> [p \in Positions |-> Equals(operands[p[1]], operands[p[2]])],
             ord |-> [p \in Positions |-> Compares(operands[p[1]], operands[p[2]])]]
  /\ UNCHANGED <<contract, raws, owned, views, result, calls, operands>>

NextCmp == Compare

SpecCmp == InitCmp /\ [][NextCmp]_vars

(***************************************************************************)
(* Properties                                                              *)
(***************************************************************************)
Holds(k, bytes) == validate(k, bytes) = Ok

\* C1: after any sequence of the public operations, every Owned value and
\* every View that exists holds raw content that validate accepts.
C1_AlwaysValid ==
  /\ \A o \in owned : Holds(contract, o.inner)
  /\ \A r \in views : Holds(contract, ViewBytes(r))

\* an Owned value and a View exist, the View decoded from a buffer
C1_Witness ==
  /\ result.op = "deserialize_view" /\ result.ok
  /\ owned # {}
  /\ result.view \in views

\* C2: on the same raw input the Owned constructor succeeds iff the View
\* constructor does; failing, both return the same error; succeeding, the
\* Owned value and the View compare equal.  A str that is no value of the
\* raw representation (longer than the inline buffer) cannot be given to the
\* Owned constructor, and the View constructor rejects it.
C2_Agreement ==
  /\ (result.op = "try_as_ref" /\ ~IsRawValue(contract, result.input)) => ~result.ok
  /\ result.op = "try_from" =>
       LET r == try_as_ref(contract, RawRegion(result.input))
       IN /\ r.ok = result.ok
          /\ ~result.ok => r.err = result.err
          /\ result.ok => /\ eq(Operand("O", [inner |-> result.out]), Operand("&R", r.view))
                          /\ eq(Operand("&R", r.view), Operand("O", [inner |-> result.out]))
  /\ (result.op = "try_as_ref" /\ IsRawValue(contract, result.input)) =>
       LET o == try_from(contract, result.input)
       IN /\ o.ok = result.ok
          /\ ~result.ok => o.err = result.err
          /\ result.ok => eq(Operand("O", [inner |-> o.inner]), Operand("&R", result.view))

\* the View constructor has rejected a value of the raw representation
C2_Witness ==
  /\ result.op = "try_as_ref" /\ ~result.ok
  /\ IsRawValue(contract, result.input)
  /\ ~try_from(contract, result.input).ok

\* C3: a View over accepted data, converted to an Owned value with to_owned
\* or From<&View>, and that borrowed as a View again, equals the original View.
C3_ViewOwnedView ==
  result.op \in {"to_owned", "from"} =>
    /\ result.ok
    /\ [inner |-> result.out] \in owned
    /\ eq(Operand("&R", borrow([inner |-> result.out])), Operand("&R", result.view))

\* a View over a caller's buffer has been converted with to_owned
C3_Witness ==
  /\ result.op = "to_owned" /\ result.ok
  /\ result.view.src = "raw"
  /\ result.view \in views

\* C4: unwrapping the Owned value try_from built from x returns data equal
\* to x, runs validate no further time and has no failure outcome.
C4_OwnedRaw ==
  /\ (result.op = "try_from" /\ result.ok) =>
       /\ [inner |-> result.out] \in owned
       /\ StrEq(into_inner([inner |-> result.out]), result.input)
  /\ result.op = "into" =>
       /\ result.ok
       /\ calls = <<>>
       /\ StrEq(result.out, result.input)

\* an Owned value has been unwrapped into a buffer of the caller
C4_Witness ==
  /\ result.op = "into"
  /\ result.out \in raws
  /\ Len(result.out) > 0

\* C5: deserializing the serialization of an Owned value succeeds and yields
\* an equal Owned value; a View serialized and deserialized from the encoded
\* buffer yields an equal View.
C5_SerdeRoundTrip ==
  /\ result.op = "serialize_owned" =>
       LET d == deserialize_owned(contract, result.out)
       IN /\ d.ok
          /\ eq(Operand("O", [inner |-> d.inner]), Operand("O", [inner |-> result.input]))
  /\ result.op = "serialize_view" =>
       LET d == deserialize_view(contract, result.out)
       IN /\ d.ok
          /\ d.view.buf = result.out
          /\ eq(Operand("&R", d.view), Operand("&R", result.view))

\* a View over a string that starts with a two-byte character has been serialized
C5_Witness ==
  /\ result.op = "serialize_view"
  /\ result.view \in views
  /\ result.input[1] >= 128

\* C6: the serialized form of an Owned value and of a View is the serialized
\* form of the raw string they hold, for every contract: no framing, tag or prefix.
C6_PlainEncoding ==
  /\ result.op = "serialize_owned" =>
       \E o \in owned : /\ o.inner = result.input
                        /\ result.out = serialize_str(o.inner)
  /\ result.op = "serialize_view" =>
       /\ result.view \in views
       /\ result.out = serialize_str(ViewBytes(result.view))

\* an inline-buffered Owned value filling its buffer has been serialized
C6_Witness ==
  /\ result.op = "serialize_owned"
  /\ contract = "ArrStrWrap"
  /\ Len(result.input) = ArrStrWrapCap
  /\ Len(result.out) = LenPrefix + ArrStrWrapCap

\* the raw string a buffer decodes to, for the Owned type and for the View type
DecodedOwned(k, buf) == deserialize_itype(k, buf)
DecodedView(buf) ==
  LET d == deserialize_str(buf)
  IN [ok |-> d.ok, bytes |-> ViewBytes(d.ref)]

\* C7: when the decoded raw string fails validate, deserialization into Owned
\* and into View return a decode failure of the custom-error shape whose
\* message is the text of the validation error, and produce no value.
C7_DecodeFailure ==
  [][/\ (/\ result'.op = "deserialize_owned"
         /\ DecodedOwned(contract, result'.input).ok
         /\ ~Holds(contract, DecodedOwned(contract, result'.input).bytes)) =>
          /\ ~result'.ok
          /\ result'.shape = "Custom"
          /\ result'.err =
               to_string(validate(contract, DecodedOwned(contract, result'.input).bytes))
          /\ result'.out = <<>>
          /\ owned' = owned /\ views' = views
     /\ (/\ result'.op = "deserialize_view"
         /\ DecodedView(result'.input).ok
         /\ ~Holds(contract, DecodedView(result'.input).bytes)) =>
          /\ ~result'.ok
          /\ result'.shape = "Custom"
          /\ result'.err =
               to_string(validate(contract, DecodedView(result'.input).bytes))
          /\ result'.view = NoView
          /\ owned' = owned /\ views' = views
    ]_vars

\* an empty string has been decoded for the Owned type whose error's text
\* differs from its name
C7_Witness ==
  /\ result.op = "deserialize_owned"
  /\ contract = "StrWrap"
  /\ DecodedOwned(contract, result.input).ok
  /\ ~Holds(contract, DecodedOwned(contract, result.input).bytes)
  /\ result.err = "string must not be empty"

\* C10: when validate rejects the input, each constructor returns exactly
\* validate's error, creates no value, calls validate no second time and
\* leaves the existing values and the caller's buffers unchanged.
C10_FailureFrame ==
  [][(result'.op \in {"try_from", "try_as_ref"} /\ ~Holds(contract, result'.input)) =>
       /\ ~result'.ok
       /\ result'.shape = "Validation"
       /\ result'.err = validate(contract, result'.input)
       /\ result'.out = <<>> /\ result'.view = NoView
       /\ calls' = <<result'.input>>
       /\ owned' = owned /\ views' = views /\ raws' = raws
    ]_vars

\* a constructor has failed while an Owned value and the caller's buffer exist
C10_Witness ==
  /\ result.op = "try_as_ref" /\ ~result.ok
  /\ owned # {}
  /\ result.input \in raws

Reverse(ord) ==
  CASE ord = "Less" -> "Greater"
    [] ord = "Greater" -> "Less"
    [] OTHER -> ord

Flip(p) == <<p[2], p[1]>>

\* what comparing the raw str contents of the operands at p gives
RawEq(p) == IF StrEq(Inner(operands[p[1]]), Inner(operands[p[2]])) THEN "true" ELSE "false"
RawCmp(p) == StrCmp(Inner(operands[p[1]]), Inner(operands[p[2]]))

AgreesWithRaw(p) ==
  /\ cmp.eq[p] = RawEq(p)
  /\ cmp.ord[p] = RawCmp(p)
  /\ cmp.eq[p] = cmp.eq[Flip(p)]
  /\ cmp.ord[p] = Reverse(cmp.ord[Flip(p)])

\* a View against a reference to a View, a str against a reference to a str
MixedReference(lf, rf) == {lf, rf} \in {{"R", "&R"}, {"S", "&S"}}

BothRaw(p) == {operands[p[1]].form, operands[p[2]].form} \subseteq {"S", "&S"}

\* C8 as stated: for every pair of operand forms, in either order, == and
\* partial_cmp give what comparing the raw contents gives, and are symmetric
\* (two raw operands are compared by the raw representation itself).
C8_EveryPair ==
  cmp.done => \A p \in Positions : BothRaw(p) \/ AgreesWithRaw(p)

\* C8: for every pair of operand forms except a View against a reference to
\* a View and a str against a reference to a str, which have no
\* implementation, == and partial_cmp in either order give what comparing
\* the raw contents gives; a == b iff b == a, and partial_cmp(a, b) is the
\* reverse of partial_cmp(b, a).
C8_ImplementedPairs ==
  /\ \A lf \in Forms, rf \in Forms : HasImpl(lf, rf) <=> ~MixedReference(lf, rf)
  /\ cmp.done =>
       \A p \in Positions :
         IF MixedReference(operands[p[1]].form, operands[p[2]].form)
         THEN cmp.eq[p] = "NoImpl" /\ cmp.ord[p] = "NoImpl"
         ELSE AgreesWithRaw(p)

\* an Owned value has been compared with a reference to a greater raw str
C8_Witness ==
  /\ cmp.done
  /\ operands[1].form = "O" /\ operands[2].form = "&S"
  /\ cmp.ord[<<1, 2>>] = "Less" /\ cmp.ord[<<2, 1>>] = "Greater"
  /\ cmp.eq[<<1, 2>>] = "false"

Comparable == \A p \in Positions : HasImpl(operands[p[1]].form, operands[p[2]].form)

Leq(p) == cmp.ord[p] \in {"Less", "Equal"}

\* C9: over any mix of Owned, View and Raw operands, a == b and b == c imply
\* a == c, and partial_cmp is a total order (never None, antisymmetric,
\* transitive) that is the order of the raw contents.
C9_TotalOrder ==
  (cmp.done /\ Comparable) =>
    /\ \A p \in Positions : cmp.eq[p] \in {"true", "false"}
    /\ \A p \in Positions : cmp.ord[p] \in {"Less", "Equal", "Greater"}
    /\ (cmp.eq[<<1, 2>>] = "true" /\ cmp.eq[<<2, 3>>] = "true") => cmp.eq[<<1, 3>>] = "true"
    /\ \A p \in Positions : cmp.ord[p] = Reverse(cmp.ord[Flip(p)])
    /\ \A p \in Positions : (cmp.ord[p] = "Equal") <=> (cmp.eq[p] = "true")
    /\ (Leq(<<1, 2>>) /\ Leq(<<2, 3>>)) => Leq(<<1, 3>>)
    /\ (Leq(<<1, 2>>) /\ Leq(<<2, 3>>) /\ cmp.ord[<<1, 3>>] = "Equal") =>
         (cmp.ord[<<1, 2>>] = "Equal" /\ cmp.ord[<<2, 3>>] = "Equal")
    /\ \A p \in Positions : cmp.ord[p] = RawCmp(p)

\* an Owned value, a View and a raw str in strictly ascending order
C9_Witness ==
  /\ cmp.done
  /\ operands[1].form = "O" /\ operands[2].form = "R" /\ operands[3].form = "S"
  /\ cmp.ord[<<1, 2>>] = "Less" /\ cmp.ord[<<2, 3>>] = "Less"
  /\ cmp.ord[<<1, 3>>] = "Less"

Borrows == {"as_ref", "borrow", "deref"}

\* C11: borrowing a View from an Owned value (as_ref, borrow or deref)
\* always succeeds, gives a View whose content is the Owned value's payload,
\* and makes no validate call: the log of validate calls of the operation is
\* empty, for the borrow just made and for every borrow that could be made.
C11_BorrowUnchecked ==
  /\ result.op \in Borrows =>
       /\ result.ok /\ result.shape = "None"
       /\ [inner |-> result.input] \in owned
       /\ result.view \in views
       /\ result.view.src = "owned"
       /\ ViewBytes(result.view) = result.input
       /\ calls = <<>>
  /\ \A o \in owned, how \in Borrows :
       /\ BorrowAs(contract, o, how).calls = <<>>
       /\ ViewBytes(BorrowAs(contract, o, how).view) = o.inner

\* a View has been borrowed by deref from a ShortId at its length limit
C11_Witness ==
  /\ contract = "ShortId"
  /\ result.op = "deref"
  /\ Len(result.input) = ShortIdMax
  /\ result.view \in views

\* C12: every View obtained by try_as_ref, by a borrow or by deserialization
\* converts to an Owned value without panic (to_owned and From<&View>), and
\* the Owned value's content is the View's; for the inline-buffered
\* contracts the length bound of validate is at most the buffer's capacity,
\* so no accepted string exceeds the capacity.
C12_ToOwnedTotal ==
  /\ ArrStrWrapMax <= ArrStrWrapCap
  /\ ShortIdMax <= ShortIdCap
  /\ \A k \in Contracts : \A x \in Inputs(k) :
       (Capacity(k) >= 0 /\ validate(k, x) = Ok) => Len(x) <= Capacity(k)
  /\ \A v \in views :
       /\ v.src \in {"raw", "owned", "wire"}
       /\ ~to_owned(contract, v).panic
       /\ to_owned(contract, v).inner = ViewBytes(v)
       /\ from_ref(contract, v) = to_owned(contract, v)
  /\ result.op \in {"to_owned", "from"} =>
       /\ result.ok /\ result.shape # "Panic"
       /\ result.out = ViewBytes(result.view)
       /\ [inner |-> result.out] \in owned

\* a deserialized ArrStrWrapRef filling the whole capacity has been converted
\* by From<&View>
C12_Witness ==
  /\ contract = "ArrStrWrap"
  /\ result.op = "from"
  /\ result.view.src = "wire"
  /\ Len(result.out) = ArrStrWrapCap
  /\ [inner |-> result.out] \in owned

Constructors == {"into_raw", "try_from", "try_as_ref"}

\* C13 as stated, for the input "abcdefghi": the attempt to construct a
\* ShortId and the attempt to construct a ShortIdRef both end in validate's
\* "Too long" error.
C13_TooLongFromBoth ==
  (contract = "ShortId" /\ result.op \in Constructors
     /\ result.input = Letters(ShortIdMax + 1)) =>
    (~result.ok /\ result.shape = "Validation" /\ result.err = "Too long")

\* C13: for ShortId / ShortIdRef, "" fails with "Empty string" from both
\* constructors; "abcdefgh" succeeds in both, and the two values are equal to
\* each other and to the literal; "abcdefghi" fails with "Too long" from the
\* View constructor, while on the Owned side it does not convert to the raw
\* representation, so that try_from is not reached, validate is not called
\* and the failure is the capacity error of the conversion; serializing and
\* deserializing the ShortId for "abcdefgh" gives an equal ShortId.
C13_ShortIdScenario ==
  contract = "ShortId" =>
    LET empty == <<>>
        fits == Letters(ShortIdMax)
        over == Letters(ShortIdMax + 1)
        lit == Operand("&S", fits)
    IN /\ (result.op \in Constructors /\ result.input = empty) =>
            /\ result.op \in {"try_from", "try_as_ref"}
            /\ ~result.ok /\ result.err = "Empty string"
            /\ try_from(contract, empty).err = try_as_ref(contract, RawRegion(empty)).err
       /\ (result.op \in Constructors /\ result.input = fits) =>
            /\ result.op \in {"try_from", "try_as_ref"}
            /\ result.ok
            /\ LET o == Operand("O", [inner |-> try_from(contract, fits).inner])
                   r == Operand("&R", try_as_ref(contract, RawRegion(fits)).view)
               IN /\ result.op = "try_from" => result.out = o.val.inner
                  /\ result.op = "try_as_ref" => ViewBytes(result.view) = ViewBytes(r.val)
                  /\ Equals(o, r) = "true" /\ Equals(r, o) = "true"
                  /\ Equals(o, lit) = "true" /\ Equals(r, lit) = "true"
       /\ (result.op \in Constructors /\ result.input = over) =>
            /\ result.op \in {"into_raw", "try_as_ref"}
            /\ ~result.ok
            /\ result.op = "try_as_ref" =>
                 (result.shape = "Validation" /\ result.err = "Too long"
                    /\ calls = <<over>>)
            /\ result.op = "into_raw" =>
                 (result.shape = "Capacity" /\ result.err # "Too long"
                    /\ calls = <<>> /\ ~IsRawValue(contract, over))
       /\ (result.op = "deserialize_owned"
             /\ result.input = serialize_owned([inner |-> fits])) =>
            /\ result.ok
            /\ Equals(Operand("O", [inner |-> result.out]),
                      Operand("O", [inner |-> fits])) = "true"

\* the View constructor has rejected "abcdefghi" as too long
C13_Witness ==
  /\ contract = "ShortId"
  /\ result.op = "try_as_ref"
  /\ result.input = Letters(ShortIdMax + 1)
  /\ result.err = "Too long"

\* C14: a deserialization into Owned or into View whose inner decode returned
\* a raw string (a value of the raw representation for Owned, a str for
\* View) calls validate exactly once, on that string, and succeeds exactly
\* when the constructor given the same string succeeds; a deserialization
\* whose inner decode failed calls validate not at all.
C14_ValidateOnce ==
  /\ result.op = "deserialize_owned" =>
       LET d == DecodedOwned(contract, result.input)
       IN IF d.ok
          THEN /\ Len(calls) = 1 /\ calls[1] = d.bytes
               /\ calls = try_from(contract, d.bytes).calls
               /\ result.ok = try_from(contract, d.bytes).ok
               /\ result.ok = (validate(contract, d.bytes) = Ok)
          ELSE calls = <<>> /\ ~result.ok
  /\ result.op = "deserialize_view" =>
       LET d == DecodedView(result.input)
       IN IF d.ok
          THEN /\ Len(calls) = 1 /\ calls[1] = d.bytes
               /\ calls = try_as_ref(contract, RawRegion(d.bytes)).calls
               /\ result.ok = try_as_ref(contract, RawRegion(d.bytes)).ok
               /\ result.ok = (validate(contract, d.bytes) = Ok)
          ELSE calls = <<>> /\ ~result.ok

\* the decoder of ArrStrWrapRef has validated, once, a decoded str longer
\* than the limit
C14_Witness ==
  /\ contract = "ArrStrWrap"
  /\ result.op = "deserialize_view"
  /\ ~result.ok
  /\ calls = <<Repeat(LatinT, ArrStrWrapMax + 1)>>

\* the buffers that exist: the caller's, the inner strings of the Owned
\* values, and the buffers the Views point into
Buffers == raws \cup {o.inner : o \in owned} \cup {v.buf : v \in views}

\* C15: a successful try_as_ref creates no buffer and copies nothing: the
\* View it returns is the reference it was given (the same buffer, offset
\* and length, hence a reference of the same size), its content is the
\* content of that region, and the caller's buffers, the Owned values and
\* the set of existing buffers are the same before and after.
C15_NoCopy ==
  [][(result'.op = "try_as_ref" /\ result'.ok) =>
       /\ result'.view \in {RawRegion(x) : x \in raws} \cup views
       /\ result'.view.buf \in Buffers
       /\ ViewBytes(result'.view) = result'.input
       /\ DOMAIN result'.view = DOMAIN RawRegion(result'.input)
       /\ raws' = raws /\ owned' = owned
       /\ views' = views \cup {result'.view}
       /\ Buffers' = Buffers]_vars

\* a StrWrapRef has been constructed over a caller's buffer
C15_Witness ==
  /\ contract = "StrWrap"
  /\ result.op = "try_as_ref" /\ result.ok
  /\ result.view.src = "raw"
  /\ result.view.buf \in raws
  /\ result.view \in views

\* C16: the same bytes deserialize into the Owned type exactly when they
\* deserialize into the View type, and then the Owned value, the View and
\* the encoded string are equal to one another; an encoded string longer
\* than an inline buffer's capacity is refused by both.
C16_SameAcceptance ==
  /\ result.op = "deserialize_owned" =>
       LET v == deserialize_view(contract, result.input)
           o == Operand("O", [inner |-> result.out])
           s == Operand("&S", DecodedView(result.input).bytes)
       IN /\ result.ok = v.ok
          /\ result.ok =>
               /\ Equals(o, Operand("&R", v.view)) = "true"
               /\ Equals(Operand("&R", v.view), o) = "true"
               /\ Equals(o, s) = "true"
               /\ Equals(Operand("&R", v.view), s) = "true"
  /\ result.op = "deserialize_view" =>
       LET d == deserialize_owned(contract, result.input)
           r == Operand("&R", result.view)
           s == Operand("&S", DecodedView(result.input).bytes)
       IN /\ result.ok = d.ok
          /\ result.ok =>
               /\ Equals(Operand("O", [inner |-> d.inner]), r) = "true"
               /\ Equals(r, Operand("O", [inner |-> d.inner])) = "true"
               /\ Equals(r, s) = "true"
               /\ Equals(Operand("O", [inner |-> d.inner]), s) = "true"
  /\ \A x \in raws :
       (Capacity(contract) >= 0 /\ Len(x) > Capacity(contract)) =>
         /\ ~deserialize_owned(contract, serialize_str(x)).ok
         /\ ~deserialize_view(contract, serialize_str(x)).ok

\* the decoder of ArrStrWrap has refused a well-formed encoding of a string
\* one byte longer than the capacity, which the View decoder refuses too
C16_Witness ==
  /\ contract = "ArrStrWrap"
  /\ result.op = "deserialize_owned"
  /\ ~result.ok /\ result.shape = "Custom" /\ result.err = "invalid length"
  /\ DecodedView(result.input).ok
  /\ Len(DecodedView(result.input).bytes) = ArrStrWrapCap + 1
  /\ deserialize_view(contract, result.input).err = "Too Long!"

====
